---- MODULE Spec2Model ----
(***************************************************************************)
(* A model of helper.py: the ICS line parser (parse_ics_to_raw), the       *)
(* recurrence rule parser (parse_rrule_to_raw), the datetime helper        *)
(* (_parse_dt_string), the recurrence evaluator (is_event_on_date,         *)
(* expand_event_occurrences) and the loader (load_and_parse_calendar).     *)
(*                                                                         *)
(* Representation.  A Python str is a sequence of tokens; a token is a     *)
(* maximal run of characters holding none of the separators the code       *)
(* splits on (":", ";", "=", ",", "T", a trailing "Z", white space), and   *)
(* each separator is a token of its own.  str.split, str.strip,            *)
(* str.endswith and == are computed on these sequences.  A datetime.date   *)
(* is its day number counted from Monday 2024-01-01 (so weekday() is the   *)
(* day number modulo 7), a datetime.time is <<hour, minute, second>>, a    *)
(* dict is a function whose DOMAIN is its set of keys.  The digits of a    *)
(* date or time text are one token, read through DateTable and TimeTexts;  *)
(* an ISO text is the record of its date part and its time part.           *)
(***************************************************************************)
EXTENDS Integers, Sequences, FiniteSets, TLC

VARIABLES
    \* parse_ics_to_raw
    input,                 \* the texts the call may be given: their lines, their length
    ics_text,              \* the lines of ics_text.splitlines() read so far
    line,                  \* the loop variable, after line.strip()
    events,
    current_event_data,
    start_dt_for_rrule,
    in_event_block,
    pc,                    \* "loop" while the for loop runs, "done" after return
    result,                \* the returned dict, None before the return
    \* expand_event_occurrences
    event,                 \* the event dict the generators were given
    gen,                   \* the generator objects, by number
    \* one call of a pure function
    call,
    \* load_and_parse_calendar
    load                   \* the call of the loader: its position, the file, its outcome

parser_vars == <<input, ics_text, line, events, current_event_data,
                 start_dt_for_rrule, in_event_block, pc, result>>

expand_vars == <<event, gen>>

vars == <<parser_vars, expand_vars, call, load>>

\* None, unequal to every str, dict, list and datetime of the model
None == [none |-> TRUE]

\* {}
empty_dict == <<>>

\* ------------------------------------------------------------------ bounds

\* longest input text, in lines
MaxLines == 5

\* longest text of the file the loader reads, in lines
MaxLinesLoaded == 4

\* longest input text with malformed values, in lines
MaxLinesMalformed == 5

\* longest input text made of block markers and few properties, in lines
MaxLinesBlocks == 7

\* longest input text whose events are then expanded, in lines
MaxLinesPipeline == 5

\* last day number of a date range over which a parsed event is expanded
MaxDayPipeline == 3

\* most codes in a BYDAY list
MaxCodes == 3

\* last day number of a date range
MaxDay == 13

\* last day number of a date range when two expansions are interleaved
MaxDayInterleaved == 2

\* ----------------------------------------------------------------- strings

WHITESPACE == {" "}

RECURSIVE lstrip(_)
lstrip(s) ==
    IF s # <<>> /\ Head(s) \in WHITESPACE THEN lstrip(Tail(s)) ELSE s

RECURSIVE rstrip(_)
rstrip(s) ==
    IF s # <<>> /\ s[Len(s)] \in WHITESPACE
    THEN rstrip(SubSeq(s, 1, Len(s) - 1)) ELSE s

\* str.strip()
strip(s) == rstrip(lstrip(s))

\* sep in s
contains(s, sep) == \E i \in 1..Len(s) : s[i] = sep

\* index of the first sep in s (s contains sep)
find(s, sep) == CHOOSE i \in 1..Len(s) : s[i] = sep /\ \A j \in 1..(i - 1) : s[j] # sep

\* s.split(sep, 1) when sep in s: the text before and after the first sep
split1(s, sep) ==
    <<SubSeq(s, 1, find(s, sep) - 1), SubSeq(s, find(s, sep) + 1, Len(s))>>

\* s.split(sep): every maximal sep-free piece, [""] for the empty string
RECURSIVE split(_, _)
split(s, sep) ==
    IF contains(s, sep)
    THEN <<split1(s, sep)[1]>> \o split(split1(s, sep)[2], sep)
    ELSE <<s>>

\* s.endswith('Z')
endswithZ(s) == s # <<>> /\ s[Len(s)] = "Z"

\* --------------------------------------------------- datetime, the library

\* The calendar days the model names: day number, %Y%m%d text, ISO text.
DateTable ==
    { <<0, "20240101", "2024-01-01">>, <<1, "20240102", "2024-01-02">>,
      <<2, "20240103", "2024-01-03">>, <<3, "20240104", "2024-01-04">>,
      <<4, "20240105", "2024-01-05">>, <<5, "20240106", "2024-01-06">>,
      <<6, "20240107", "2024-01-07">>, <<7, "20240108", "2024-01-08">>,
      <<8, "20240109", "2024-01-09">>, <<9, "20240110", "2024-01-10">>,
      <<10, "20240111", "2024-01-11">>, <<11, "20240112", "2024-01-12">>,
      <<12, "20240113", "2024-01-13">>, <<13, "20240114", "2024-01-14">>,
      <<14, "20240115", "2024-01-15">>, <<15, "20240116", "2024-01-16">>,
      <<60, "20240301", "2024-03-01">> }

\* The times of day the model names, with their ISO text.
TimeTable ==
    { << <<0, 0, 0>>, "00:00:00" >>, << <<9, 0, 0>>, "09:00:00" >>,
      << <<9, 3, 0>>, "09:03:00" >>, << <<9, 30, 0>>, "09:30:00" >>,
      << <<10, 0, 0>>, "10:00:00" >>, << <<10, 0, 30>>, "10:00:30" >> }

\* What strptime reads in the digits after "T", by format.  %H, %M and %S each
\* take two digits or one, so %H%M%S also matches four digits: HH, M, S.
TimeTexts ==
    { <<"%Y%m%dT%H%M%S", "000000", <<0, 0, 0>> >>,
      <<"%Y%m%dT%H%M%S", "090000", <<9, 0, 0>> >>,
      <<"%Y%m%dT%H%M%S", "093000", <<9, 30, 0>> >>,
      <<"%Y%m%dT%H%M%S", "100000", <<10, 0, 0>> >>,
      <<"%Y%m%dT%H%M%S", "100030", <<10, 0, 30>> >>,
      <<"%Y%m%dT%H%M%S", "0000", <<0, 0, 0>> >>,
      <<"%Y%m%dT%H%M%S", "0900", <<9, 0, 0>> >>,
      <<"%Y%m%dT%H%M%S", "0930", <<9, 3, 0>> >>,
      <<"%Y%m%dT%H%M%S", "1000", <<10, 0, 0>> >>,
      <<"%Y%m%dT%H%M", "0000", <<0, 0, 0>> >>,
      <<"%Y%m%dT%H%M", "0900", <<9, 0, 0>> >>,
      <<"%Y%m%dT%H%M", "0930", <<9, 30, 0>> >>,
      <<"%Y%m%dT%H%M", "1000", <<10, 0, 0>> >> }

\* an exception raised, as a value
raised(name) == [exc |-> name]

\* datetime.datetime.strptime(dt_str, fmt): the datetime, or ValueError raised
strptime(dt_str, fmt) ==
    IF /\ Len(dt_str) = 3
       /\ dt_str[2] = "T"
       /\ \E d \in DateTable : d[2] = dt_str[1]
       /\ \E t \in TimeTexts : t[1] = fmt /\ t[2] = dt_str[3]
    THEN [date |-> (CHOOSE d \in DateTable : d[2] = dt_str[1])[1],
          time |-> (CHOOSE t \in TimeTexts : t[1] = fmt /\ t[2] = dt_str[3])[3]]
    ELSE raised("ValueError")

\* datetime.isoformat(): the text, as what stands before and after its "T"
datetime_isoformat(dt) ==
    [iso_date |-> (CHOOSE d \in DateTable : d[1] = dt.date)[3],
     iso_time |-> (CHOOSE t \in TimeTable : t[1] = dt.time)[2]]

\* time.isoformat()
time_isoformat(t) == (CHOOSE r \in TimeTable : r[1] = t)[2]

\* datetime.datetime.fromisoformat(s) of a text datetime_isoformat made
datetime_fromisoformat(s) ==
    [date |-> (CHOOSE d \in DateTable : d[3] = s.iso_date)[1],
     time |-> (CHOOSE t \in TimeTable : t[2] = s.iso_time)[1]]

\* time.fromisoformat(s) of a text time_isoformat made
time_fromisoformat(s) == (CHOOSE t \in TimeTable : t[2] = s)[1]

\* date.weekday(), 0 = Monday
weekday(date) == date % 7

\* sorted(xs), by insertion
RECURSIVE insert(_, _)
insert(x, xs) ==
    IF xs = <<>> THEN <<x>>
    ELSE IF x <= Head(xs) THEN <<x>> \o xs
    ELSE <<Head(xs)>> \o insert(x, Tail(xs))

RECURSIVE sorted(_)
sorted(xs) == IF xs = <<>> THEN <<>> ELSE insert(Head(xs), sorted(Tail(xs)))

\* ------------------------------------------------------- _parse_dt_string

FORMATS == <<"%Y%m%dT%H%M%S", "%Y%m%dT%H%M">>

\* a trailing Z that would be left in the text handed to strptime
_parse_dt_string_keep_z(dt_str) ==
    IF strptime(dt_str, FORMATS[1]) # raised("ValueError") THEN strptime(dt_str, FORMATS[1])
    ELSE IF strptime(dt_str, FORMATS[2]) # raised("ValueError") THEN strptime(dt_str, FORMATS[2])
    ELSE None

_parse_dt_string(dt_str) ==
    LET s == IF endswithZ(dt_str) THEN SubSeq(dt_str, 1, Len(dt_str) - 1)
             ELSE dt_str
    IN  IF strptime(s, FORMATS[1]) # raised("ValueError") THEN strptime(s, FORMATS[1])
        ELSE IF strptime(s, FORMATS[2]) # raised("ValueError") THEN strptime(s, FORMATS[2])
        ELSE None

\* ----------------------------------------------------- parse_rrule_to_raw

WEEKDAY_MAP ==
    [code \in {"MO", "TU", "WE", "TH", "FR", "SA", "SU"} |->
        CASE code = "MO" -> 0 [] code = "TU" -> 1 [] code = "WE" -> 2
          [] code = "TH" -> 3 [] code = "FR" -> 4 [] code = "SA" -> 5
          [] code = "SU" -> 6]

\* the dict built by the loop over rrule_str.split(";"): a later key overwrites
RECURSIVE rrule_rules(_)
rrule_rules(parts) ==
    IF parts = <<>> THEN empty_dict
    ELSE LET part == parts[Len(parts)]
             rest == rrule_rules(SubSeq(parts, 1, Len(parts) - 1))
         IN  IF contains(part, "=")
             THEN (split1(part, "=")[1] :> split1(part, "=")[2]) @@ rest
             ELSE rest

\* [WEEKDAY_MAP[code] for code in day_codes if code in WEEKDAY_MAP]
RECURSIVE byday_days(_)
byday_days(day_codes) ==
    IF day_codes = <<>> THEN <<>>
    ELSE LET code == Head(day_codes)
         IN  (IF Len(code) = 1 /\ code[1] \in DOMAIN WEEKDAY_MAP
              THEN <<WEEKDAY_MAP[code[1]]>> ELSE <<>>)
             \o byday_days(Tail(day_codes))

\* a BYDAY list that gives no day would fall back on the anchor
parse_rrule_to_raw_fallback(rrule_str, start_dt) ==
    LET rules == rrule_rules(split(rrule_str, ";"))
        byday == IF <<"BYDAY">> \in DOMAIN rules
                 THEN byday_days(split(rules[<<"BYDAY">>], ","))
                 ELSE <<>>
        days == IF byday # <<>> THEN byday
                ELSE IF start_dt # None THEN <<weekday(start_dt.date)>>
                ELSE <<>>
        until_dt == _parse_dt_string(IF <<"UNTIL">> \in DOMAIN rules
                                     THEN rules[<<"UNTIL">>] ELSE <<>>)
        until_iso == IF until_dt # None THEN datetime_isoformat(until_dt) ELSE None
    IN  ("days" :> sorted(days)) @@ ("until" :> until_iso)

parse_rrule_to_raw(rrule_str, start_dt) ==
    LET rules == rrule_rules(split(rrule_str, ";"))
        days == IF <<"BYDAY">> \in DOMAIN rules
                THEN byday_days(split(rules[<<"BYDAY">>], ","))
                ELSE IF start_dt # None THEN <<weekday(start_dt.date)>>
                ELSE <<>>
        until_dt == _parse_dt_string(IF <<"UNTIL">> \in DOMAIN rules
                                     THEN rules[<<"UNTIL">>] ELSE <<>>)
        until_iso == IF until_dt # None THEN datetime_isoformat(until_dt) ELSE None
    IN  ("days" :> sorted(days)) @@ ("until" :> until_iso)

\* ------------------------------------------------------- parse_ics_to_raw

BEGIN_VEVENT == <<"BEGIN", ":", "VEVENT">>
END_VEVENT == <<"END", ":", "VEVENT">>

\* The lines an input text is made of.
Lines ==
    { BEGIN_VEVENT,
      <<"END", ":", "VEVENT", " ">>,
      <<"DTSTART", ":", "20240101", "T", "090000">>,
      <<"DTSTART", ";", "TZID", "=", "X", ":", "20240103", "T", "1000", "Z">>,
      <<"DTSTART", ";", "VALUE", "=", "DATE", ":", "20240102">>,
      <<"DTEND", ":", "20240101", "T", "100000">>,
      <<"SUMMARY", ":", "Standup">>,
      <<"LOCATION", ":", " ", "Room">>,
      <<"RRULE", ":", "FREQ", "=", "WEEKLY", ";", "BYDAY", "=", "WE", ",", "2SU", ",", "MO",
        ";", "UNTIL", "=", "20240301", "T", "000000">>,
      <<"RRULE", ":", "FREQ", "=", "WEEKLY">>,
      <<"X-NOTE", ":", "text">> }

\* The lines of the texts that try the block structure: the two markers and
\* three properties.
BlockLines ==
    { BEGIN_VEVENT,
      <<"END", ":", "VEVENT", " ">>,
      <<"DTSTART", ":", "20240101", "T", "090000">>,
      <<"SUMMARY", ":", "Standup">>,
      <<"RRULE", ":", "FREQ", "=", "WEEKLY">> }

\* The lines of the texts that try malformed values: each datetime property
\* with a value that parses and with one that does not, and a text property.
MalformedLines ==
    { BEGIN_VEVENT,
      <<"END", ":", "VEVENT", " ">>,
      <<"DTSTART", ":", "20240103", "T", "100000">>,
      <<"DTSTART", ";", "VALUE", "=", "DATE", ":", "20240102">>,
      <<"DTEND", ":", "20240101", "T", "100000">>,
      <<"DTEND", ":", "tomorrow">>,
      <<"SUMMARY", ":", "Standup">>,
      <<"RRULE", ":", "FREQ", "=", "WEEKLY", ";", "BYDAY", "=", "MO",
        ";", "UNTIL", "=", "20240301", "T", "000000">>,
      <<"RRULE", ":", "FREQ", "=", "WEEKLY", ";", "UNTIL", "=", "20240105">> }

\* The lines of the texts whose events are then expanded: both times, an RRULE
\* that takes its day from the anchor, and one whose BYDAY names no weekday.
PipelineLines ==
    { BEGIN_VEVENT,
      <<"END", ":", "VEVENT", " ">>,
      <<"DTSTART", ":", "20240101", "T", "090000">>,
      <<"DTEND", ":", "20240101", "T", "100000">>,
      <<"RRULE", ":", "FREQ", "=", "WEEKLY">>,
      <<"RRULE", ":", "FREQ", "=", "WEEKLY", ";", "BYDAY", "=", "2SU",
        ";", "UNTIL", "=", "20240301", "T", "000000">> }

\* dict.update / item assignment: the keys of new overwrite those of old
update(old, new) == new @@ old

\* parse_ics_to_raw is entered with a text of at most max lines among lines
ParserStart(lines, max) ==
    /\ input = [lines |-> lines, max |-> max]
    /\ ics_text = <<>>
    /\ line = None
    /\ events = <<>>
    /\ current_event_data = None
    /\ start_dt_for_rrule = None
    /\ in_event_block = FALSE
    /\ pc = "loop"
    /\ result = None

ParserInit ==
    /\ input = [lines |-> Lines, max |-> MaxLines]
    /\ ics_text = <<>>
    /\ line = None
    /\ events = <<>>
    /\ current_event_data = None
    /\ start_dt_for_rrule = None
    /\ in_event_block = FALSE
    /\ pc = "loop"
    /\ result = None

\* the loop reads one more line and strips it
ReadLine(raw) ==
    /\ pc = "loop"
    /\ Len(ics_text) < input.max
    /\ ics_text' = Append(ics_text, raw)
    /\ line' = strip(raw)
    /\ UNCHANGED <<input, pc, result, expand_vars, call, load>>

\* a BEGIN:VEVENT that would flush the block still open instead of discarding it
LineBegin_flush ==
    \E raw \in input.lines :
        /\ ReadLine(raw)
        /\ line' = BEGIN_VEVENT
        /\ in_event_block' = TRUE
        /\ events' = IF current_event_data # None /\ DOMAIN current_event_data # {}
                     THEN Append(events, current_event_data) ELSE events
        /\ current_event_data' = empty_dict
        /\ start_dt_for_rrule' = None

\* a BEGIN:VEVENT that would go on with the block still open
LineBegin_keep_data ==
    \E raw \in input.lines :
        /\ ReadLine(raw)
        /\ line' = BEGIN_VEVENT
        /\ in_event_block' = TRUE
        /\ current_event_data' = IF in_event_block /\ current_event_data # None
                                 THEN current_event_data ELSE empty_dict
        /\ start_dt_for_rrule' = None
        /\ UNCHANGED events

\* a BEGIN:VEVENT that would keep the anchor of the block before
LineBegin_keep_anchor ==
    \E raw \in input.lines :
        /\ ReadLine(raw)
        /\ line' = BEGIN_VEVENT
        /\ in_event_block' = TRUE
        /\ current_event_data' = empty_dict
        /\ UNCHANGED <<events, start_dt_for_rrule>>

\* line == "BEGIN:VEVENT"
LineBegin ==
    \E raw \in input.lines :
        /\ ReadLine(raw)
        /\ line' = BEGIN_VEVENT
        /\ in_event_block' = TRUE
        /\ current_event_data' = empty_dict
        /\ start_dt_for_rrule' = None
        /\ UNCHANGED events

\* the dict under construction is not None and not empty
truthy(d) == d # None /\ DOMAIN d # {}

\* an END:VEVENT that would append without testing what it appends
LineEnd_append_always ==
    \E raw \in input.lines :
        /\ ReadLine(raw)
        /\ line' = END_VEVENT
        /\ in_event_block' = FALSE
        /\ events' = Append(events, current_event_data)
        /\ current_event_data' = None
        /\ UNCHANGED start_dt_for_rrule

\* line == "END:VEVENT"
LineEnd ==
    \E raw \in input.lines :
        /\ ReadLine(raw)
        /\ line' = END_VEVENT
        /\ in_event_block' = FALSE
        /\ events' = IF truthy(current_event_data)
                     THEN Append(events, current_event_data) ELSE events
        /\ current_event_data' = None
        /\ UNCHANGED start_dt_for_rrule

\* the key of a property line: line.split(":", 1)[0].split(";")[0]
line_key(l) == split(split1(l, ":")[1], ";")[1]
line_value(l) == split1(l, ":")[2]

\* the guard without its block tests
in_block_property_unguarded(l) == contains(l, ":")

\* in_event_block and current_event_data is not None and ":" in line
in_block_property(l) ==
    in_event_block /\ current_event_data # None /\ contains(l, ":")

\* a chain whose RRULE branch would merge only the values that are not None
property_event_merge_set(key, value, data, anchor) ==
    LET dt == _parse_dt_string(value)
        rrule_data == parse_rrule_to_raw(value, anchor)
    IN  IF key = <<"DTSTART">>
        THEN IF dt # None THEN update(data, "start_time" :> time_isoformat(dt.time))
             ELSE data
        ELSE IF key = <<"DTEND">>
        THEN IF dt # None THEN update(data, "end_time" :> time_isoformat(dt.time))
             ELSE data
        ELSE IF key = <<"SUMMARY">> THEN update(data, "summary" :> value)
        ELSE IF key = <<"LOCATION">> THEN update(data, "location" :> strip(value))
        ELSE IF key = <<"RRULE">>
        THEN IF rrule_data["until"] = None /\ "until" \in DOMAIN data
             THEN update(data, "days" :> rrule_data["days"])
             ELSE update(data, rrule_data)
        ELSE data

\* a chain that would store None for a datetime that does not parse
property_event_store_none(key, value, data, anchor) ==
    LET dt == _parse_dt_string(value)
    IN  IF key = <<"DTSTART">>
        THEN update(data, "start_time" :> IF dt # None THEN time_isoformat(dt.time)
                                          ELSE None)
        ELSE IF key = <<"DTEND">>
        THEN update(data, "end_time" :> IF dt # None THEN time_isoformat(dt.time)
                                        ELSE None)
        ELSE IF key = <<"SUMMARY">> THEN update(data, "summary" :> value)
        ELSE IF key = <<"LOCATION">> THEN update(data, "location" :> strip(value))
        ELSE IF key = <<"RRULE">> THEN update(data, parse_rrule_to_raw(value, anchor))
        ELSE data

\* the event dict after the if/elif chain over key
property_event(key, value, data, anchor) ==
    LET dt == _parse_dt_string(value)
    IN  IF key = <<"DTSTART">>
        THEN IF dt # None THEN update(data, "start_time" :> time_isoformat(dt.time))
             ELSE data
        ELSE IF key = <<"DTEND">>
        THEN IF dt # None THEN update(data, "end_time" :> time_isoformat(dt.time))
             ELSE data
        ELSE IF key = <<"SUMMARY">> THEN update(data, "summary" :> value)
        ELSE IF key = <<"LOCATION">> THEN update(data, "location" :> strip(value))
        ELSE IF key = <<"RRULE">> THEN update(data, parse_rrule_to_raw(value, anchor))
        ELSE data

\* the anchor after the if/elif chain over key
property_anchor(key, value, anchor) ==
    IF key = <<"DTSTART">> /\ _parse_dt_string(value) # None
    THEN _parse_dt_string(value) ELSE anchor

\* a property line that would still reach the dict of the block closed last
LineProperty_after_end ==
    \E raw \in input.lines :
        /\ ReadLine(raw)
        /\ line' \notin {BEGIN_VEVENT, END_VEVENT}
        /\ contains(line', ":")
        /\ IF in_event_block /\ current_event_data # None
           THEN /\ current_event_data' =
                       property_event(line_key(line'), line_value(line'),
                                      current_event_data, start_dt_for_rrule)
                /\ UNCHANGED events
           ELSE /\ events # <<>>
                /\ events' = [events EXCEPT ![Len(events)] =
                                 property_event(line_key(line'), line_value(line'),
                                                events[Len(events)], start_dt_for_rrule)]
                /\ UNCHANGED current_event_data
        /\ start_dt_for_rrule' =
               property_anchor(line_key(line'), line_value(line'), start_dt_for_rrule)
        /\ UNCHANGED in_event_block

\* any other line, inside a block and holding ":"
LineProperty ==
    \E raw \in input.lines :
        /\ ReadLine(raw)
        /\ line' \notin {BEGIN_VEVENT, END_VEVENT}
        /\ in_block_property(line')
        /\ current_event_data' =
               property_event(line_key(line'), line_value(line'),
                              current_event_data, start_dt_for_rrule)
        /\ start_dt_for_rrule' =
               property_anchor(line_key(line'), line_value(line'), start_dt_for_rrule)
        /\ UNCHANGED <<events, in_event_block>>

\* any other line, outside a block or without ":"
LineSkipped ==
    \E raw \in input.lines :
        /\ ReadLine(raw)
        /\ line' \notin {BEGIN_VEVENT, END_VEVENT}
        /\ ~in_block_property(line')
        /\ UNCHANGED <<events, current_event_data, start_dt_for_rrule, in_event_block>>

\* the text is exhausted: return {"events": events}
Return ==
    /\ pc = "loop"
    /\ pc' = "done"
    /\ result' = [events |-> events]
    /\ UNCHANGED <<input, ics_text, line, events, current_event_data,
                   start_dt_for_rrule, in_event_block, expand_vars, call, load>>

ParserNext == LineBegin \/ LineEnd \/ LineProperty \/ LineSkipped \/ Return

\* no call of parse_ics_to_raw
ParserIdle ==
    /\ input = [lines |-> {}, max |-> 0]
    /\ ics_text = <<>>
    /\ line = None
    /\ events = <<>>
    /\ current_event_data = None
    /\ start_dt_for_rrule = None
    /\ in_event_block = FALSE
    /\ pc = "idle"
    /\ result = None

\* ------------------------------------------------------- is_event_on_date

\* event.get("until"), None standing for every falsy value
get_until(ev) == IF "until" \in DOMAIN ev THEN ev["until"] ELSE None

\* event.get("days", [])
days_of(ev) == IF "days" \in DOMAIN ev THEN ev["days"] ELSE <<>>

\* a weekday test that would be skipped for an event without days
is_event_on_date_no_days_any_day(ev, check_date) ==
    IF get_until(ev) # None
       /\ check_date > datetime_fromisoformat(ev["until"]).date
    THEN FALSE
    ELSE IF days_of(ev) # <<>>
            /\ weekday(check_date) \notin {days_of(ev)[i] : i \in 1..Len(days_of(ev))}
    THEN FALSE
    ELSE TRUE

\* a strict comparison turned loose
is_event_on_date_exclusive(ev, check_date) ==
    IF get_until(ev) # None
       /\ check_date >= datetime_fromisoformat(ev["until"]).date
    THEN FALSE
    ELSE IF weekday(check_date) \notin {days_of(ev)[i] : i \in 1..Len(days_of(ev))}
    THEN FALSE
    ELSE TRUE

is_event_on_date(ev, check_date) ==
    IF get_until(ev) # None
       /\ check_date > datetime_fromisoformat(ev["until"]).date
    THEN FALSE
    ELSE IF weekday(check_date) \notin {days_of(ev)[i] : i \in 1..Len(days_of(ev))}
    THEN FALSE
    ELSE TRUE

\* ----------------------------------------------- expand_event_occurrences

\* the generator objects that exist
Gens == DOMAIN gen

\* datetime.datetime.combine(date, time)
combine(date, time) == [date |-> date, time |-> time]

\* a generator object just made by the call: no line of the body has run
new_generator(start_range, end_range) ==
    [pc |-> "created", start_range |-> start_range, end_range |-> end_range,
     start_time |-> None, end_time |-> None, current_date |-> None,
     out |-> <<>>, exc |-> None]

\* a first next() that would take midnight for a missing time
GenStart_default_time(g) ==
    /\ gen[g].pc = "created"
    /\ gen' = [gen EXCEPT ![g] =
            [gen[g] EXCEPT
                !.pc = "running",
                !.start_time = IF "start_time" \in DOMAIN event
                               THEN time_fromisoformat(event["start_time"])
                               ELSE <<0, 0, 0>>,
                !.end_time = IF "end_time" \in DOMAIN event
                             THEN time_fromisoformat(event["end_time"])
                             ELSE <<0, 0, 0>>,
                !.current_date = gen[g].start_range]]
    /\ UNCHANGED <<event, parser_vars, call, load>>

\* the first next(): the lines before the loop
GenStart(g) ==
    /\ gen[g].pc = "created"
    /\ gen' = [gen EXCEPT ![g] =
            IF "start_time" \notin DOMAIN event \/ "end_time" \notin DOMAIN event
            THEN [gen[g] EXCEPT !.pc = "raised", !.exc = raised("KeyError")]
            ELSE [gen[g] EXCEPT
                     !.pc = "running",
                     !.start_time = time_fromisoformat(event["start_time"]),
                     !.end_time = time_fromisoformat(event["end_time"]),
                     !.current_date = gen[g].start_range]]
    /\ UNCHANGED <<event, parser_vars, call, load>>

\* a loop that would stop one day early
loop_condition_exclusive(g) == gen[g].current_date < gen[g].end_range

\* a loop that would test its condition after the first pass only
loop_condition_do_while(g) ==
    \/ gen[g].current_date <= gen[g].end_range
    \/ gen[g].current_date = gen[g].start_range

\* while current_date <= end_range
loop_condition(g) == gen[g].current_date <= gen[g].end_range

\* list.remove(x)
RECURSIVE remove(_, _)
remove(xs, x) ==
    IF xs = <<>> THEN <<>>
    ELSE IF Head(xs) = x THEN Tail(xs)
    ELSE <<Head(xs)>> \o remove(Tail(xs), x)

\* a loop body that would consume the matched weekday from the event's days
GenStep_consuming(g) ==
    /\ gen[g].pc = "running"
    /\ gen[g].current_date <= gen[g].end_range
    /\ gen' = [gen EXCEPT ![g] =
            [gen[g] EXCEPT
                !.out = IF is_event_on_date(event, gen[g].current_date)
                        THEN Append(gen[g].out,
                                    <<combine(gen[g].current_date, gen[g].start_time),
                                      combine(gen[g].current_date, gen[g].end_time)>>)
                        ELSE gen[g].out,
                !.current_date = gen[g].current_date + 1]]
    /\ event' = IF is_event_on_date(event, gen[g].current_date)
                THEN update(event, "days" :> remove(event["days"],
                                                    weekday(gen[g].current_date)))
                ELSE event
    /\ UNCHANGED <<parser_vars, call, load>>

\* a loop body that would step to the next day only after a yield
GenStep_step_after_yield(g) ==
    /\ gen[g].pc = "running"
    /\ loop_condition(g)
    /\ gen' = [gen EXCEPT ![g] =
            IF is_event_on_date(event, gen[g].current_date)
            THEN [gen[g] EXCEPT
                     !.out = Append(gen[g].out,
                                    <<combine(gen[g].current_date, gen[g].start_time),
                                      combine(gen[g].current_date, gen[g].end_time)>>),
                     !.current_date = gen[g].current_date + 1]
            ELSE gen[g]]
    /\ UNCHANGED <<event, parser_vars, call, load>>

\* one pass through the loop body: the yield, if any, and the step to the next day
GenStep(g) ==
    /\ gen[g].pc = "running"
    /\ loop_condition(g)
    /\ gen' = [gen EXCEPT ![g] =
            [gen[g] EXCEPT
                !.out = IF is_event_on_date(event, gen[g].current_date)
                        THEN Append(gen[g].out,
                                    <<combine(gen[g].current_date, gen[g].start_time),
                                      combine(gen[g].current_date, gen[g].end_time)>>)
                        ELSE gen[g].out,
                !.current_date = gen[g].current_date + 1]]
    /\ UNCHANGED <<event, parser_vars, call, load>>

\* the loop ends: StopIteration
GenStop(g) ==
    /\ gen[g].pc = "running"
    /\ ~loop_condition(g)
    /\ gen' = [gen EXCEPT ![g] = [gen[g] EXCEPT !.pc = "done"]]
    /\ UNCHANGED <<event, parser_vars, call, load>>

\* the pairs one generator yields when it alone runs to its end
RECURSIVE expand_alone(_, _, _)
expand_alone(ev, start_range, end_range) ==
    IF start_range > end_range THEN <<>>
    ELSE expand_alone(ev, start_range, end_range - 1)
         \o (IF is_event_on_date(ev, end_range)
              THEN << <<combine(end_range, time_fromisoformat(ev["start_time"])),
                       combine(end_range, time_fromisoformat(ev["end_time"]))>> >>
              ELSE <<>>)

\* event holds both times expand_event_occurrences reads
expandable(ev) == {"start_time", "end_time"} \subseteq DOMAIN ev

ExpandNext == \E g \in Gens : GenStart(g) \/ GenStep(g) \/ GenStop(g)

\* the event dicts the generators are given
field(key, opt) == IF opt = <<>> THEN empty_dict ELSE key :> opt[1]

StartTimes == {<<>>, <<"09:00:00">>}
EndTimes == {<<>>, <<"10:00:00">>}
DaysLists == {<<>>, << <<>> >>, << <<0>> >>, << <<0, 2, 4>> >>, << <<0, 0>> >>,
              << <<4>> >>, << <<6>> >>}
Untils ==
    {<<>>, <<None>>}
    \cup { <<datetime_isoformat(combine(d, t))>> :
              d \in {4, 7}, t \in {<<0, 0, 0>>, <<9, 0, 0>>} }

Events ==
    { field("start_time", st) @@ field("end_time", et)
      @@ field("days", ds) @@ field("until", u) :
        st \in StartTimes, et \in EndTimes, ds \in DaysLists, u \in Untils }

\* no call of expand_event_occurrences: no generator object
ExpandIdle == event = None /\ gen = <<>>

\* ------------------------------------------------------------- pure calls

\* str.join
RECURSIVE join(_, _)
join(parts, sep) ==
    IF parts = <<>> THEN <<>>
    ELSE IF Len(parts) = 1 THEN parts[1]
    ELSE parts[1] \o <<sep>> \o join(Tail(parts), sep)

Codes == {"MO", "WE", "FR", "SU", "2SU", "-1FR"}
CodeLists == UNION { [1..n -> Codes] : n \in 1..MaxCodes }

\* the BYDAY part of an RRULE value
byday_part(codes) == <<"BYDAY", "=">> \o join([i \in 1..Len(codes) |-> <<codes[i]>>], ",")

\* what comes after the BYDAY part
RruleTails ==
    { <<>>,
      <<";", "UNTIL", "=", "20240105", "T", "000000">>,
      <<";", "UNTIL", "=", "20240105">>,
      <<";", "WKST", "=", "MO">> }

Anchors == {None, combine(1, <<9, 0, 0>>), combine(5, <<10, 0, 0>>)}

CallParseRrule ==
    /\ call = None
    /\ \E codes \in CodeLists \cup {<<>>}, tl \in RruleTails, start_dt \in Anchors :
        LET rrule_str == <<"FREQ", "=", "WEEKLY">>
                         \o (IF codes = <<>> THEN <<>> ELSE <<";">> \o byday_part(codes))
                         \o tl
        IN
            /\ call' = [fn |-> "parse_rrule_to_raw", codes |-> codes,
                        rrule_str |-> rrule_str, start_dt |-> start_dt,
                        ret |-> parse_rrule_to_raw(rrule_str, start_dt)]
            /\ UNCHANGED <<parser_vars, expand_vars, load>>

CallIsEventOnDate ==
    /\ call = None
    /\ \E ev \in Events, check_date \in 0..MaxDay :
        /\ call' = [fn |-> "is_event_on_date", event |-> ev, check_date |-> check_date,
                    ret |-> is_event_on_date(ev, check_date)]
        /\ UNCHANGED <<parser_vars, expand_vars, load>>

\* the datetime tokens _parse_dt_string is called on: both supported forms, and
\* a date alone
DtTokens ==
    { <<d, "T", t>> : d \in {"20240101", "20240103", "20240107"},
                      t \in {"090000", "093000", "100030", "0900", "0930", "1000"} }
    \cup { <<"20240102">> }

\* _parse_dt_string on a token and on the token followed by Z, alone and as the
\* value of a DTSTART line of a block that holds nothing yet
CallParseDt ==
    /\ call = None
    /\ \E t \in DtTokens :
        LET z == t \o <<"Z">>
        IN  /\ call' = [fn |-> "_parse_dt_string", dt_str |-> t,
                        ret |-> _parse_dt_string(t),
                        ret_z |-> _parse_dt_string(z),
                        dtstart |-> [data |-> property_event(<<"DTSTART">>, t, empty_dict, None),
                                     anchor |-> property_anchor(<<"DTSTART">>, t, None)],
                        dtstart_z |-> [data |-> property_event(<<"DTSTART">>, z, empty_dict, None),
                                       anchor |-> property_anchor(<<"DTSTART">>, z, None)]]
            /\ UNCHANGED <<parser_vars, expand_vars, load>>

CallsNext == CallParseRrule \/ CallIsEventOnDate \/ CallParseDt

\* ------------------------------------------------- load_and_parse_calendar

\* the built-in exception classes open() and read() raise on a str path, each
\* with the classes it is an instance of (IOError is an alias of OSError)
ExceptionClasses ==
    [cls \in {"FileNotFoundError", "NotADirectoryError", "IsADirectoryError",
              "PermissionError", "OSError", "UnicodeDecodeError", "ValueError"} |->
        CASE cls \in {"FileNotFoundError", "NotADirectoryError",
                      "IsADirectoryError", "PermissionError"} -> {cls, "OSError", "IOError"}
          [] cls = "OSError" -> {"OSError", "IOError"}
          [] cls = "UnicodeDecodeError" -> {cls, "ValueError"}
          [] cls = "ValueError" -> {cls}]

\* except (classes): the clause catches exc
catches(classes, exc) == ExceptionClasses[exc.exc] \cap classes # {}

\* What file_path names: how the path resolves, and what the bytes of the file
\* are.  ENOENT: no such file or directory; ENOTDIR: a component of the path
\* is not a directory; EISDIR: the path names a directory; EACCES: permission
\* denied; "null byte": the path holds "\0"; EIO: the device fails.
Files ==
    { [path |-> p, bytes |-> "utf-8"] :
        p \in {"ENOENT", "ENOTDIR", "EISDIR", "EACCES", "null byte"} }
    \cup { [path |-> "regular file", bytes |-> b] : b \in {"utf-8", "not utf-8", "EIO"} }

\* open(file_path, "r", encoding="utf-8"): the file object, or the exception
builtin_open(file) ==
    CASE file.path = "ENOENT" -> raised("FileNotFoundError")
      [] file.path = "ENOTDIR" -> raised("NotADirectoryError")
      [] file.path = "EISDIR" -> raised("IsADirectoryError")
      [] file.path = "EACCES" -> raised("PermissionError")
      [] file.path = "null byte" -> raised("ValueError")
      [] file.path = "regular file" -> [f |-> file]

\* f.read(): the exception, or None when the text was read
read_failure(file) ==
    CASE file.bytes = "not utf-8" -> raised("UnicodeDecodeError")
      [] file.bytes = "EIO" -> raised("OSError")
      [] file.bytes = "utf-8" -> None

\* the except clauses in the other order: the wider one first
except_clauses_wide_first(exc) ==
    IF catches({"IOError", "ValueError", "KeyError", "IndexError"}, exc)
    THEN raised("CalendarParseError")
    ELSE IF catches({"FileNotFoundError"}, exc)
    THEN raised("CalendarNotFoundError")
    ELSE exc

\* the except clauses of the try statement, in order: what leaves the function
except_clauses(exc) ==
    IF catches({"FileNotFoundError"}, exc)
    THEN raised("CalendarNotFoundError")
    ELSE IF catches({"IOError", "ValueError", "KeyError", "IndexError"}, exc)
    THEN raised("CalendarParseError")
    ELSE exc

\* no call of load_and_parse_calendar
LoadIdle == load = None

\* with open(file_path, "r", encoding="utf-8") as f
LoadOpen ==
    /\ load # None
    /\ load.pc = "called"
    /\ load' = IF builtin_open(load.file) = [f |-> load.file]
               THEN [load EXCEPT !.pc = "opened"]
               ELSE [load EXCEPT !.pc = "raised",
                                 !.outcome = except_clauses(builtin_open(load.file))]
    /\ UNCHANGED <<parser_vars, expand_vars, call>>

\* ics_data = f.read(), and parse_ics_to_raw(ics_data) is entered: the lines of
\* ics_data are those its loop then reads
LoadRead ==
    /\ load # None
    /\ load.pc = "opened"
    /\ IF read_failure(load.file) # None
       THEN /\ load' = [load EXCEPT !.pc = "raised",
                                    !.outcome = except_clauses(read_failure(load.file))]
            /\ UNCHANGED <<input, pc>>
       ELSE /\ load' = [load EXCEPT !.pc = "parsing"]
            /\ input' = [lines |-> Lines, max |-> MaxLinesLoaded]
            /\ pc' = "loop"
    /\ UNCHANGED <<ics_text, line, events, current_event_data,
                   start_dt_for_rrule, in_event_block, result, expand_vars, call>>

\* return calendar
LoadReturn ==
    /\ load # None
    /\ load.pc = "parsing"
    /\ pc = "done"
    /\ load' = [load EXCEPT !.pc = "returned", !.outcome = result]
    /\ UNCHANGED <<parser_vars, expand_vars, call>>

LoadNext == LoadOpen \/ LoadRead \/ ParserNext \/ LoadReturn

\* --------------------------------------------------------- specifications

\* parse_ics_to_raw reads a text line by line
Init == ParserInit /\ ExpandIdle /\ call = None /\ LoadIdle
Next == ParserNext
Spec == Init /\ [][Next]_vars

\* parse_ics_to_raw reads a longer text of markers and few properties
InitBlocks ==
    /\ ParserStart(BlockLines, MaxLinesBlocks)
    /\ ExpandIdle
    /\ call = None
    /\ LoadIdle
SpecBlocks == InitBlocks /\ [][Next]_vars

\* parse_ics_to_raw reads a text with malformed values
InitMalformed ==
    /\ ParserStart(MalformedLines, MaxLinesMalformed)
    /\ ExpandIdle
    /\ call = None
    /\ LoadIdle
SpecMalformed == InitMalformed /\ [][Next]_vars

\* the pure functions are called on the inputs of the model
InitCalls == ParserIdle /\ ExpandIdle /\ call = None /\ LoadIdle
NextCalls == CallsNext
SpecCalls == InitCalls /\ [][NextCalls]_vars

\* one generator is consumed to its end
InitExpand ==
    /\ ParserIdle
    /\ call = None
    /\ LoadIdle
    /\ event \in Events
    /\ \E s \in 0..MaxDay, e \in 0..MaxDay :
          gen = <<new_generator(s, e)>>
NextExpand == ExpandNext
SpecExpand == InitExpand /\ [][NextExpand]_vars

\* expand_event_occurrences is called on an event parse_ics_to_raw returned
ExpandParsed ==
    /\ pc = "done"
    /\ event = None
    /\ \E i \in 1..Len(result.events), s \in 0..MaxDayPipeline, e \in 0..MaxDayPipeline :
          /\ event' = result.events[i]
          /\ gen' = <<new_generator(s, e)>>
    /\ UNCHANGED <<parser_vars, call, load>>

\* a text is parsed and an event of the result expanded, or an event dict made
\* by the caller is expanded
InitPipeline ==
    /\ call = None
    /\ LoadIdle
    /\ \/ ParserStart(PipelineLines, MaxLinesPipeline) /\ ExpandIdle
       \/ /\ ParserIdle
          /\ event \in Events
          /\ \E s \in 0..MaxDayPipeline, e \in 0..MaxDayPipeline :
                gen = <<new_generator(s, e)>>
NextPipeline == ParserNext \/ ExpandParsed \/ ExpandNext
SpecPipeline == InitPipeline /\ [][NextPipeline]_vars

\* one generator is consumed to its end by a caller that goes on calling next()
SpecExpandFair == InitExpand /\ [][NextExpand]_vars /\ WF_vars(NextExpand)

\* two generators over the same event dict are consumed in any interleaving
InitInterleaved ==
    /\ ParserIdle
    /\ call = None
    /\ LoadIdle
    /\ event \in Events
    /\ gen \in [{1, 2} -> { new_generator(s, e) :
                              s \in 0..MaxDayInterleaved, e \in 0..MaxDayInterleaved }]
SpecInterleaved == InitInterleaved /\ [][NextExpand]_vars

\* load_and_parse_calendar is called on a path
InitLoad ==
    /\ ParserIdle
    /\ ExpandIdle
    /\ call = None
    /\ load \in {[pc |-> "called", file |-> file, outcome |-> None] : file \in Files}
NextLoad == LoadNext
SpecLoad == InitLoad /\ [][NextLoad]_vars

\* ------------------------------------------- the input text, block by block

\* line k of the text as the loop sees it: stripped
stripped(text, k) == strip(text[k])

is_marker(l) == l \in {BEGIN_VEVENT, END_VEVENT}

\* lines i and j of text open and close one block: BEGIN:VEVENT at i, END:VEVENT
\* at j, neither of the two in between
is_block(text, i, j) ==
    /\ i < j
    /\ stripped(text, i) = BEGIN_VEVENT
    /\ stripped(text, j) = END_VEVENT
    /\ \A k \in (i + 1)..(j - 1) : ~is_marker(stripped(text, k))

\* the lines strictly between lines i and j, stripped
between(text, i, j) == [k \in 1..(j - i - 1) |-> stripped(text, i + k)]

\* line k of text lies inside an open block: the nearest marker before it is a
\* BEGIN:VEVENT
inside(text, k) ==
    \E i \in 1..(k - 1) :
        /\ stripped(text, i) = BEGIN_VEVENT
        /\ \A m \in (i + 1)..(k - 1) : ~is_marker(stripped(text, m))

\* every BEGIN:VEVENT is met outside a block, every END:VEVENT inside one, and
\* the text ends outside a block
well_formed(text) ==
    /\ \A k \in 1..Len(text) :
          /\ stripped(text, k) = BEGIN_VEVENT => ~inside(text, k)
          /\ stripped(text, k) = END_VEVENT => inside(text, k)
    /\ ~inside(text, Len(text) + 1)

\* the dict and the anchor the loop builds from the lines of one block
RECURSIVE block_state(_)
block_state(ls) ==
    IF ls = <<>> THEN [data |-> empty_dict, anchor |-> None]
    ELSE LET before == block_state(SubSeq(ls, 1, Len(ls) - 1))
             l == ls[Len(ls)]
         IN  IF contains(l, ":")
             THEN [data |-> property_event(line_key(l), line_value(l),
                                           before.data, before.anchor),
                   anchor |-> property_anchor(line_key(l), line_value(l),
                                              before.anchor)]
             ELSE before

\* the END:VEVENT lines of text that close a block, in document order
RECURSIVE block_ends(_, _)
block_ends(text, n) ==
    IF n = 0 THEN <<>>
    ELSE block_ends(text, n - 1)
         \o (IF stripped(text, n) = END_VEVENT /\ inside(text, n)
             THEN <<n>> ELSE <<>>)

block_begin(text, j) == CHOOSE i \in 1..j : is_block(text, i, j)

\* l is a property line with this key
has_key(l, key) == contains(l, ":") /\ line_key(l) = <<key>>

\* l is a DTSTART line whose value parses
is_parsed_dtstart(l) ==
    has_key(l, "DTSTART") /\ _parse_dt_string(line_value(l)) # None

\* the events the blocks of text give, in document order: one per closed block
\* whose dict is not empty
RECURSIVE emitted_from(_, _)
emitted_from(text, ends) ==
    IF ends = <<>> THEN <<>>
    ELSE LET j == ends[Len(ends)]
             data == block_state(between(text, block_begin(text, j), j)).data
         IN  emitted_from(text, SubSeq(ends, 1, Len(ends) - 1))
             \o (IF truthy(data) THEN <<data>> ELSE <<>>)

emitted(text) == emitted_from(text, block_ends(text, Len(text)))

\* text without its property lines that lie outside every block
RECURSIVE inside_only(_, _)
inside_only(text, n) ==
    IF n = 0 THEN <<>>
    ELSE inside_only(text, n - 1)
         \o (IF is_marker(stripped(text, n)) \/ inside(text, n)
              THEN <<text[n]>> ELSE <<>>)

\* no BEGIN:VEVENT of text is followed by an END:VEVENT
no_closed_block(text) ==
    ~\E i, j \in 1..Len(text) :
        i < j /\ stripped(text, i) = BEGIN_VEVENT /\ stripped(text, j) = END_VEVENT

\* the BEGIN:VEVENT that opened the block line k lies in
open_begin(text, k) ==
    CHOOSE i \in 1..(k - 1) :
        /\ stripped(text, i) = BEGIN_VEVENT
        /\ \A m \in (i + 1)..(k - 1) : ~is_marker(stripped(text, m))

\* l is an RRULE line whose value has no BYDAY key
is_rrule_without_byday(l) ==
    /\ has_key(l, "RRULE")
    /\ <<"BYDAY">> \notin DOMAIN rrule_rules(split(line_value(l), ";"))

\* line k of text belongs to a block that a later BEGIN:VEVENT cuts short: it
\* is a BEGIN:VEVENT or a line after one, and the next marker after it is
\* another BEGIN:VEVENT
discarded(text, k) ==
    /\ \E i \in 1..k :
          /\ stripped(text, i) = BEGIN_VEVENT
          /\ \A m \in (i + 1)..k : ~is_marker(stripped(text, m))
    /\ \E j \in (k + 1)..Len(text) :
          /\ stripped(text, j) = BEGIN_VEVENT
          /\ \A m \in (k + 1)..(j - 1) : ~is_marker(stripped(text, m))

\* text without the lines of the blocks cut short
RECURSIVE without_discarded(_, _)
without_discarded(text, n) ==
    IF n = 0 THEN <<>>
    ELSE without_discarded(text, n - 1)
         \o (IF discarded(text, n) THEN <<>> ELSE <<text[n]>>)

\* line k of text is an END:VEVENT met while no block is open
stray_end(text, k) == stripped(text, k) = END_VEVENT /\ ~inside(text, k)

\* text without its stray END:VEVENT lines
RECURSIVE without_stray_ends(_, _)
without_stray_ends(text, n) ==
    IF n = 0 THEN <<>>
    ELSE without_stray_ends(text, n - 1)
         \o (IF stray_end(text, n) THEN <<>> ELSE <<text[n]>>)

\* l is a DTSTART or DTEND line whose value does not parse
is_unparseable_dt_line(l) ==
    /\ has_key(l, "DTSTART") \/ has_key(l, "DTEND")
    /\ _parse_dt_string(line_value(l)) = None

\* l is an RRULE line whose UNTIL value does not parse
has_unparseable_until(l) ==
    /\ has_key(l, "RRULE")
    /\ LET rules == rrule_rules(split(line_value(l), ";"))
       IN  /\ <<"UNTIL">> \in DOMAIN rules
           /\ _parse_dt_string(rules[<<"UNTIL">>]) = None

\* the parts of an RRULE value that are not an UNTIL part
RECURSIVE other_parts(_)
other_parts(parts) ==
    IF parts = <<>> THEN <<>>
    ELSE (IF contains(Head(parts), "=") /\ split1(Head(parts), "=")[1] = <<"UNTIL">>
          THEN <<>> ELSE <<Head(parts)>>)
         \o other_parts(Tail(parts))

\* an RRULE value without its UNTIL part
without_until(value) == join(other_parts(split(value, ";")), ";")

\* text without its unparseable DTSTART and DTEND lines and without the
\* unparseable UNTIL parts of its RRULE lines
RECURSIVE repaired(_, _)
repaired(text, n) ==
    IF n = 0 THEN <<>>
    ELSE LET l == stripped(text, n)
         IN  repaired(text, n - 1)
             \o (IF is_marker(l) THEN <<text[n]>>
                 ELSE IF is_unparseable_dt_line(l) THEN <<>>
                 ELSE IF has_unparseable_until(l)
                 THEN <<split1(l, ":")[1] \o <<":">> \o without_until(line_value(l))>>
                 ELSE <<text[n]>>)

\* the lines of ls that are not RRULE lines
RECURSIVE without_rrule(_)
without_rrule(ls) ==
    IF ls = <<>> THEN <<>>
    ELSE (IF has_key(Head(ls), "RRULE") THEN <<>> ELSE <<Head(ls)>>)
         \o without_rrule(Tail(ls))

\* ------------------------------------------------------------------ claims

\* C1: for a text made only of well-formed blocks, parse_ics_to_raw returns
\* exactly one event per BEGIN/END pair, in document order, whatever the block
\* holds (also nothing, or only unrecognized keys or unparseable values).
C1_OneEventPerBlock ==
    (pc = "done" /\ well_formed(ics_text)) =>
        LET ends == block_ends(ics_text, Len(ics_text))
        IN  /\ Len(result.events) = Len(ends)
            /\ \A n \in 1..Len(ends) :
                  result.events[n] =
                      block_state(between(ics_text, block_begin(ics_text, ends[n]),
                                          ends[n])).data

\* C2: when the block just closed holds a parseable DTSTART line and no RRULE
\* line, the event emitted for it has days equal to the one-element list of
\* that DTSTART's weekday; when it holds neither, the days of the event are
\* empty.
C2_DaysDefaultToDtstartWeekday ==
    LET n == Len(ics_text)
    IN  (n > 0 /\ \E i \in 1..n : is_block(ics_text, i, n)) =>
            LET ls == between(ics_text, block_begin(ics_text, n), n)
                last == events[Len(events)]
            IN  (\A k \in 1..Len(ls) : ~has_key(ls[k], "RRULE")) =>
                    IF \E k \in 1..Len(ls) : is_parsed_dtstart(ls[k])
                    THEN /\ events # <<>>
                         /\ "days" \in DOMAIN last
                         /\ \E k \in 1..Len(ls) :
                               /\ is_parsed_dtstart(ls[k])
                               /\ last["days"] =
                                    <<weekday(_parse_dt_string(line_value(ls[k])).date)>>
                    ELSE truthy(block_state(ls).data) =>
                            (events # <<>> /\ days_of(last) = <<>>)

\* C3: a property line outside every VEVENT block never contributes to an
\* emitted event: the events returned are those of the text without such lines.
C3_OutsideLinesIgnored ==
    pc = "done" => result.events = emitted(inside_only(ics_text, Len(ics_text)))

\* C3 witness: a SUMMARY, DTSTART or RRULE line outside every block, in a text
\* that emitted an event
C3_Witness ==
    /\ pc = "done"
    /\ events # <<>>
    /\ \E k \in 1..Len(ics_text) :
          /\ ~inside(ics_text, k)
          /\ \/ has_key(stripped(ics_text, k), "SUMMARY")
             \/ has_key(stripped(ics_text, k), "DTSTART")
             \/ has_key(stripped(ics_text, k), "RRULE")

\* C9: a text in which no BEGIN:VEVENT is followed by an END:VEVENT (no block
\* at all, or only unterminated ones) gives no event, and the call returns
\* {"events": []} normally.
C9_NoClosedBlockNoEvent ==
    (pc = "done" /\ no_closed_block(ics_text)) => result = [events |-> <<>>]

\* C9 witness: the call returned for a text whose unterminated block holds a
\* SUMMARY line
C9_Witness ==
    /\ pc = "done"
    /\ no_closed_block(ics_text)
    /\ \E k \in 1..Len(ics_text) :
          inside(ics_text, k) /\ has_key(stripped(ics_text, k), "SUMMARY")
    /\ result = [events |-> <<>>]

\* C4: with a BYDAY key, parse_rrule_to_raw returns as days the ascending list
\* of the weekday indices of exactly the recognized codes of the list, each as
\* often as it is listed; unrecognized codes are dropped, and a list of only
\* unrecognized codes gives [] even when an anchor is supplied
\* (MO,WE,FR gives [0,2,4]; 2SU gives []).
C4_ByDayDays ==
    (call # None /\ call.fn = "parse_rrule_to_raw" /\ call.codes # <<>>) =>
        LET days == call.ret["days"]
            codes == call.codes
            names == <<"MO", "TU", "WE", "TH", "FR", "SA", "SU">>
        IN  /\ \A i \in 1..(Len(days) - 1) : days[i] <= days[i + 1]
            /\ \A i \in 1..Len(days) : days[i] \in 0..6
            /\ \A w \in 0..6 :
                  Cardinality({i \in 1..Len(days) : days[i] = w})
                  = Cardinality({i \in 1..Len(codes) : codes[i] = names[w + 1]})
            /\ codes = <<"MO", "WE", "FR">> => days = <<0, 2, 4>>
            /\ codes = <<"2SU">> => days = <<>>

\* C4 witness: BYDAY=2SU with an anchor supplied gave no day
C4_Witness ==
    /\ call # None
    /\ call.fn = "parse_rrule_to_raw"
    /\ call.codes = <<"2SU">>
    /\ call.start_dt # None
    /\ call.ret["days"] = <<>>

\* C5: is_event_on_date(event, D) is true exactly when (until is absent or D
\* is not after the date of until) and weekday(D) is in days; the bound is
\* inclusive.
C5_OnDateIff ==
    (call # None /\ call.fn = "is_event_on_date") =>
        LET ev == call.event
            D == call.check_date
            bounded == "until" \in DOMAIN ev /\ ev["until"] # None
            until_day == (CHOOSE r \in DateTable : r[3] = ev["until"].iso_date)[1]
            in_days == /\ "days" \in DOMAIN ev
                       /\ \E i \in 1..Len(ev["days"]) : ev["days"][i] = D % 7
        IN  call.ret = ((~bounded \/ D <= until_day) /\ in_days)

\* C5 witness: D is the very date of until, its weekday is in days, the answer
\* is true
C5_Witness ==
    /\ call # None
    /\ call.fn = "is_event_on_date"
    /\ "until" \in DOMAIN call.event
    /\ call.event["until"] = [iso_date |-> "2024-01-05", iso_time |-> "00:00:00"]
    /\ call.check_date = 4
    /\ call.ret = TRUE

\* C6: for an event with both times, the expansion consumed to its end has
\* yielded, in strictly ascending date order and each once, one pair
\* (D + start_time, D + end_time) for exactly the dates D of start..end on
\* which is_event_on_date holds.
C6_ExpandExactly ==
    \A g \in Gens :
        gen[g].pc = "done" =>
            LET out == gen[g].out
                Ds == { D \in gen[g].start_range..gen[g].end_range :
                          is_event_on_date(event, D) }
            IN  /\ Len(out) = Cardinality(Ds)
                /\ \A i \in 1..Len(out) :
                      /\ out[i][1].date \in Ds
                      /\ out[i][2].date = out[i][1].date
                      /\ time_isoformat(out[i][1].time) = event["start_time"]
                      /\ time_isoformat(out[i][2].time) = event["end_time"]
                /\ \A i \in 1..(Len(out) - 1) : out[i][1].date < out[i + 1][1].date

\* C6 witness: days [0,2,4], no until, a 14-day range, 6 pairs
C6_Witness ==
    /\ gen[1].pc = "done"
    /\ days_of(event) = <<0, 2, 4>>
    /\ "until" \notin DOMAIN event
    /\ gen[1].start_range = 0
    /\ gen[1].end_range = 13
    /\ Len(gen[1].out) = 6

\* C7: expanding an expandable event over a range whose start is after its
\* end yields nothing and ends normally.
C7_EmptyRange ==
    \A g \in Gens :
        (expandable(event) /\ gen[g].start_range > gen[g].end_range) =>
            gen[g].out = <<>> /\ gen[g].pc # "raised"

\* C7 witness: an event that occurs on some day, expanded to the end over a
\* range with start after end
C7_Witness ==
    /\ gen[1].pc = "done"
    /\ gen[1].start_range > gen[1].end_range
    /\ days_of(event) = <<0, 2, 4>>
    /\ "until" \notin DOMAIN event
    /\ gen[1].out = <<>>

\* the results of the generators that have ended
C8_Results ==
    /\ \A g \in Gens :
          gen[g].pc = "done" =>
              gen[g].out = expand_alone(event, gen[g].start_range, gen[g].end_range)
    /\ \A g, h \in Gens :
          (/\ gen[g].pc = "done" /\ gen[h].pc = "done"
           /\ gen[g].start_range = gen[h].start_range
           /\ gen[g].end_range = gen[h].end_range) => gen[g].out = gen[h].out

\* C8: two expansions of the same event over the same range give the same
\* pairs in the same order; no step changes the event dict, and two
\* expansions interleaved step by step each give what they give alone.
C8_Idempotent ==
    /\ [](C8_Results)
    /\ [][/\ event' = event
          /\ \A g, h \in Gens :
                (g # h /\ gen'[g] # gen[g]) => gen'[h] = gen[h]]_vars

\* C8 witness: two expansions over the same range, both ended, two pairs each
C8_Witness ==
    /\ gen[1].pc = "done"
    /\ gen[2].pc = "done"
    /\ gen[1].start_range = gen[2].start_range
    /\ gen[1].end_range = gen[2].end_range
    /\ Len(gen[1].out) = 2
    /\ gen[2].out = gen[1].out

\* C10: expanding an event without start_time or end_time fails with
\* KeyError and never yields a pair, whatever the range; the failure differs
\* from an expansion that ends with nothing yielded.
C10_NotExpandable ==
    \A g \in Gens :
        /\ ~expandable(event) =>
              /\ gen[g].out = <<>>
              /\ gen[g].pc \in {"created", "raised"}
        /\ gen[g].pc = "raised" <=> gen[g].exc = raised("KeyError")
        /\ gen[g].pc = "done" => (gen[g].exc = None /\ expandable(event))

\* C10 witness: the event has no end_time and would occur on the first day of
\* the range; the expansion failed
C10_Witness ==
    /\ gen[1].pc = "raised"
    /\ gen[1].exc = raised("KeyError")
    /\ "start_time" \in DOMAIN event
    /\ "end_time" \notin DOMAIN event
    /\ gen[1].start_range <= gen[1].end_range
    /\ is_event_on_date(event, gen[1].start_range)
    /\ gen[1].out = <<>>

\* C11: load_and_parse_calendar ends in exactly one of three outcomes:
\* CalendarNotFoundError when the file does not exist, CalendarParseError on
\* every other failure to open, read or decode it, the parse result when the
\* text was read; the two errors are never taken for one another and no
\* built-in exception leaves the function.
C11_LoaderOutcomes ==
    (load # None /\ load.pc \in {"raised", "returned"}) =>
        /\ load.file.path = "ENOENT" <=> load.outcome = raised("CalendarNotFoundError")
        /\ (load.file.path \notin {"ENOENT", "regular file"} \/ load.file.bytes # "utf-8")
              <=> load.outcome = raised("CalendarParseError")
        /\ (load.file.path = "regular file" /\ load.file.bytes = "utf-8")
              <=> (load.pc = "returned" /\ load.outcome = [events |-> events])
        /\ \A cls \in DOMAIN ExceptionClasses : load.outcome # raised(cls)

\* C11 witness: the path names no file and the call ended with
\* CalendarNotFoundError
C11_Witness ==
    /\ load # None
    /\ load.pc = "raised"
    /\ load.file.path = "ENOENT"
    /\ load.outcome = raised("CalendarNotFoundError")

\* C12: for a datetime token t, _parse_dt_string(t + "Z") returns what
\* _parse_dt_string(t) returns: the Z is only stripped and nothing is
\* converted, so a DTSTART with and without Z gives the same start_time and the
\* same anchor.
C12_TrailingZ ==
    (call # None /\ call.fn = "_parse_dt_string") =>
        /\ call.ret_z = call.ret
        /\ call.dtstart_z = call.dtstart

\* C12 witness: 20240103T1000 parsed, with and without Z, as the Wednesday at
\* 10:00:00
C12_Witness ==
    /\ call # None
    /\ call.fn = "_parse_dt_string"
    /\ call.dt_str = <<"20240103", "T", "1000">>
    /\ call.ret_z = combine(2, <<10, 0, 0>>)
    /\ weekday(call.dtstart_z.anchor.date) = 2
    /\ call.dtstart_z.data = ("start_time" :> "10:00:00")

\* C13: when an RRULE line without BYDAY is read inside a block, days becomes
\* the one weekday of the last parseable DTSTART line that stands before it in
\* the same block, and the empty list when the block has none before it; a
\* DTSTART of an earlier block, closed or not, is never the anchor.
C13_AnchorFromOwnBlock ==
    LET n == Len(ics_text)
    IN  (/\ pc = "loop"
         /\ n > 0
         /\ in_event_block
         /\ is_rrule_without_byday(line)
         /\ inside(ics_text, n)) =>
            LET b == open_begin(ics_text, n)
                starts == { k \in (b + 1)..(n - 1) :
                              is_parsed_dtstart(stripped(ics_text, k)) }
                last == CHOOSE k \in starts : \A m \in starts : m <= k
            IN  current_event_data["days"] =
                    IF starts = {} THEN <<>>
                    ELSE <<weekday(_parse_dt_string(
                                     line_value(stripped(ics_text, last))).date)>>

\* C13 witness: an RRULE line without BYDAY in a block with no DTSTART line,
\* after an earlier block that holds a parseable DTSTART; days is empty
C13_Witness ==
    LET n == Len(ics_text)
    IN  /\ pc = "loop"
        /\ n > 0
        /\ in_event_block
        /\ is_rrule_without_byday(line)
        /\ inside(ics_text, n)
        /\ \E k \in 1..(open_begin(ics_text, n) - 1) :
              inside(ics_text, k) /\ is_parsed_dtstart(stripped(ics_text, k))
        /\ \A k \in (open_begin(ics_text, n) + 1)..(n - 1) :
              ~has_key(stripped(ics_text, k), "DTSTART")
        /\ current_event_data["days"] = <<>>

\* C14: a BEGIN:VEVENT met while a block is open discards what the open block
\* gathered: the events returned are those of the text without the lines from
\* the first BEGIN:VEVENT up to the second, so no field set before the second
\* BEGIN:VEVENT is in an event and the next END:VEVENT emits at most the one
\* event built from the lines after it.
C14_SecondBeginDiscards ==
    pc = "done" =>
        /\ result.events = emitted(without_discarded(ics_text, Len(ics_text)))
        /\ Len(result.events) <= Len(block_ends(ics_text, Len(ics_text)))

\* C14 witness: a SUMMARY line in a block cut short by a second BEGIN:VEVENT,
\* and one event returned, without summary
C14_Witness ==
    /\ pc = "done"
    /\ Len(result.events) = 1
    /\ "summary" \notin DOMAIN result.events[1]
    /\ \E k \in 1..Len(ics_text) :
          discarded(ics_text, k) /\ has_key(stripped(ics_text, k), "SUMMARY")

\* the events returned are those of the text without its stray END:VEVENT lines
C15_AsIfAbsent ==
    pc = "done" => result.events = emitted(without_stray_ends(ics_text, Len(ics_text)))

\* C15: an END:VEVENT line met while no block is open (before any
\* BEGIN:VEVENT, or right after another END:VEVENT) changes nothing: events,
\* the accumulator and the anchor stay as they are, the parser stays outside a
\* block and goes on, and the blocks after it are parsed as if the line were
\* not there.
C15_StrayEndNoOp ==
    /\ [](C15_AsIfAbsent)
    /\ [][(/\ Len(ics_text') = Len(ics_text) + 1
           /\ stray_end(ics_text', Len(ics_text')))
          => /\ events' = events
             /\ current_event_data' = current_event_data
             /\ start_dt_for_rrule' = start_dt_for_rrule
             /\ in_event_block = FALSE
             /\ in_event_block' = FALSE
             /\ pc' = "loop"]_vars

\* C15 witness: a text that starts with END:VEVENT, holds two END:VEVENT in a
\* row later, and gave one event
C15_Witness ==
    /\ pc = "done"
    /\ Len(ics_text) = 5
    /\ stray_end(ics_text, 1)
    /\ stray_end(ics_text, 5)
    /\ stripped(ics_text, 4) = END_VEVENT
    /\ Len(result.events) = 1

\* the events returned are those of the text without its unparseable values
C16_AsIfAbsent ==
    pc = "done" => result.events = emitted(repaired(ics_text, Len(ics_text)))

\* C16: a DTSTART, DTEND or UNTIL value that does not parse is not fatal.  An
\* unparseable DTSTART or DTEND line read inside a block changes neither the
\* event under construction nor the anchor nor the events; an RRULE line with
\* an unparseable UNTIL sets what the same line without its UNTIL part sets,
\* until being None; and the events returned are those of the text without the
\* unparseable values.
C16_MalformedValueSkipped ==
    /\ [](C16_AsIfAbsent)
    /\ [][(/\ Len(ics_text') = Len(ics_text) + 1
           /\ in_event_block
           /\ current_event_data # None)
          => /\ is_unparseable_dt_line(line')
                  => /\ current_event_data' = current_event_data
                     /\ start_dt_for_rrule' = start_dt_for_rrule
                     /\ events' = events
                     /\ pc' = "loop"
             /\ has_unparseable_until(line')
                  => /\ current_event_data' =
                            update(current_event_data,
                                   parse_rrule_to_raw(without_until(line_value(line')),
                                                      start_dt_for_rrule))
                     /\ current_event_data'["until"] = None
                     /\ start_dt_for_rrule' = start_dt_for_rrule
                     /\ events' = events
                     /\ pc' = "loop"]_vars

\* C16 witness: one event returned for a block that holds an unparseable DTEND
\* line after a DTEND line that parses, and an UNTIL that does not parse: it
\* has its end_time, and until is None
C16_Witness ==
    /\ pc = "done"
    /\ Len(result.events) = 1
    /\ \E j, k \in 1..Len(ics_text) :
          /\ j < k
          /\ has_key(stripped(ics_text, j), "DTEND")
          /\ ~is_unparseable_dt_line(stripped(ics_text, j))
          /\ has_key(stripped(ics_text, k), "DTEND")
          /\ is_unparseable_dt_line(stripped(ics_text, k))
    /\ \E k \in 1..Len(ics_text) : has_unparseable_until(stripped(ics_text, k))
    /\ {"end_time", "until"} \subseteq DOMAIN result.events[1]
    /\ result.events[1]["until"] = None

\* C17: when the block just closed holds RRULE lines, the days and until of the
\* event emitted for it are those parse_rrule_to_raw gives for the last RRULE
\* line (with the anchor of the last parseable DTSTART before that line), so
\* until is None when that line has no parseable UNTIL, whatever an earlier
\* RRULE line set; every other field is what the block gives without its RRULE
\* lines.
C17_LastRruleWins ==
    LET n == Len(ics_text)
    IN  (/\ pc = "loop"
         /\ n > 0
         /\ line = END_VEVENT
         /\ \E i \in 1..n : is_block(ics_text, i, n)) =>
            LET ls == between(ics_text, block_begin(ics_text, n), n)
                rrules == { k \in 1..Len(ls) : has_key(ls[k], "RRULE") }
                r == CHOOSE k \in rrules : \A m \in rrules : m <= k
                starts == { k \in 1..(r - 1) : is_parsed_dtstart(ls[k]) }
                anchor == IF starts = {} THEN None
                          ELSE _parse_dt_string(line_value(
                                   ls[CHOOSE k \in starts : \A m \in starts : m <= k]))
                rules == rrule_rules(split(line_value(ls[r]), ";"))
                expected == parse_rrule_to_raw(line_value(ls[r]), anchor)
                others == block_state(without_rrule(ls)).data
                last == events[Len(events)]
            IN  rrules # {} =>
                    /\ events # <<>>
                    /\ last["days"] = expected["days"]
                    /\ last["until"] = expected["until"]
                    /\ (\/ <<"UNTIL">> \notin DOMAIN rules
                        \/ _parse_dt_string(rules[<<"UNTIL">>]) = None)
                          => last["until"] = None
                    /\ DOMAIN last = DOMAIN others \cup {"days", "until"}
                    /\ \A key \in DOMAIN others : last[key] = others[key]

\* C17 witness: a block with a DTSTART line, an RRULE line with BYDAY and a
\* parseable UNTIL, then an RRULE line with neither: the event has the days of
\* the anchor and until None, and its start_time
C17_Witness ==
    /\ pc = "loop"
    /\ Len(ics_text) = 5
    /\ is_block(ics_text, 1, 5)
    /\ is_parsed_dtstart(stripped(ics_text, 2))
    /\ has_key(stripped(ics_text, 3), "RRULE")
    /\ ~is_rrule_without_byday(stripped(ics_text, 3))
    /\ ~has_unparseable_until(stripped(ics_text, 3))
    /\ is_rrule_without_byday(stripped(ics_text, 4))
    /\ events = << ("start_time" :> "10:00:00") @@ ("days" :> <<2>>)
                   @@ ("until" :> None) >>

\* the day steps a generator has made, and the days of its range
C18_Steps(g) == gen[g].current_date - gen[g].start_range
C18_Days(g) ==
    IF gen[g].end_range < gen[g].start_range THEN 0
    ELSE gen[g].end_range - gen[g].start_range + 1

\* a pass through the loop body moves the current date to the next day
C18_DayStep ==
    \A g \in Gens :
        (gen[g].pc = "running" /\ gen'[g] # gen[g] /\ gen'[g].pc = "running")
            => gen'[g].current_date = gen[g].current_date + 1

\* the expansion of an expandable event has ended
C18_Ended == \A g \in Gens : expandable(event) => gen[g].pc = "done"

\* the bounds as the claim states them: the current date is never after the
\* day that follows end
C18_OriginalBounds ==
    \A g \in Gens :
        gen[g].pc \in {"running", "done"} =>
            /\ C18_Steps(g) \in 0..C18_Days(g)
            /\ Len(gen[g].out) <= C18_Days(g)
            /\ gen[g].current_date <= gen[g].end_range + 1

\* C18 as stated: the expansion of an expandable event, consumed to the end,
\* ends after at most max(0, end - start + 1) day steps with at most that many
\* pairs; the current date moves on by one day at each step and never exceeds
\* end + 1 day.
C18_Original ==
    /\ [](C18_OriginalBounds)
    /\ [][C18_DayStep]_vars
    /\ <>(C18_Ended)

\* the bounds that hold: the current date is never after the later of start
\* and the day that follows end
C18_Bounds ==
    \A g \in Gens :
        gen[g].pc \in {"running", "done"} =>
            /\ C18_Steps(g) \in 0..C18_Days(g)
            /\ Len(gen[g].out) <= C18_Days(g)
            /\ gen[g].current_date <=
                  IF gen[g].start_range > gen[g].end_range + 1
                  THEN gen[g].start_range ELSE gen[g].end_range + 1

\* C18: the expansion of an expandable event, consumed to the end, ends after
\* at most max(0, end - start + 1) day steps with at most that many pairs; the
\* current date moves on by one day at each step and never exceeds the later
\* of start and end + 1 day.
C18_BoundedExpansion ==
    /\ [](C18_Bounds)
    /\ [][C18_DayStep]_vars
    /\ <>(C18_Ended)

\* C18 witness: a 14-day range expanded to the end in 14 day steps, the current
\* date being the day after end
C18_Witness ==
    /\ gen[1].pc = "done"
    /\ gen[1].start_range = 0
    /\ gen[1].end_range = 13
    /\ gen[1].current_date = 14
    /\ C18_Steps(1) = 14
    /\ Len(gen[1].out) = 6

\* a line read leaves the events emitted so far as they are; it adds at most
\* one, which is built from the lines of the block it closes
C19_EventsOnlyGrow ==
    /\ Len(events') \in {Len(events), Len(events) + 1}
    /\ SubSeq(events', 1, Len(events)) = events
    /\ Len(events') = Len(events) + 1 =>
          LET n == Len(ics_text')
          IN  /\ n = Len(ics_text) + 1
              /\ stripped(ics_text', n) = END_VEVENT
              /\ inside(ics_text', n)
              /\ events'[Len(events')] =
                    block_state(between(ics_text', block_begin(ics_text', n), n)).data

\* C19: an event appended at its END:VEVENT is changed by no later line, and
\* its fields come from the lines between its own BEGIN:VEVENT and END:VEVENT
\* only; so the events emitted for the lines read up to an END:VEVENT are a
\* prefix of the events of every longer text, and of the events returned.
C19_EmittedEventsFrozen ==
    /\ [][C19_EventsOnlyGrow]_vars
    /\ [](pc = "done" => result.events = events)

\* C19 witness: two events returned, the second with a start_time that the
\* first has not, and a property line read after the last END:VEVENT
C19_Witness ==
    /\ pc = "done"
    /\ Len(result.events) = 2
    /\ "start_time" \notin DOMAIN result.events[1]
    /\ "start_time" \in DOMAIN result.events[2]
    /\ Len(ics_text) = 7
    /\ stripped(ics_text, 6) = END_VEVENT
    /\ has_key(stripped(ics_text, 7), "SUMMARY")

\* C20: an event whose days is absent or empty occurs on no date:
\* is_event_on_date is false for every date and its expansion yields no pair
\* over any range, whatever until, start_time and end_time are; so for the
\* events parse_ics_to_raw returns that carry no days key.
C20_NoDaysNoOccurrence ==
    /\ (event # None /\ days_of(event) = <<>>) =>
          /\ \A D \in 0..MaxDay : ~is_event_on_date(event, D)
          /\ \A g \in Gens : gen[g].out = <<>>
    /\ pc = "done" =>
          \A i \in 1..Len(result.events) :
              "days" \notin DOMAIN result.events[i] =>
                  \A D \in 0..MaxDay : ~is_event_on_date(result.events[i], D)

\* C20 witness: a parsed event with both times and no days key, expanded to
\* the end over the four days from its DTSTART date on: no pair
C20_Witness ==
    /\ pc = "done"
    /\ Len(result.events) = 1
    /\ event = result.events[1]
    /\ "days" \notin DOMAIN event
    /\ expandable(event)
    /\ gen[1].pc = "done"
    /\ gen[1].start_range = 0
    /\ gen[1].end_range = 3
    /\ gen[1].out = <<>>
====
